---- MODULE Spec2Model ----
(***************************************************************************)
(* Model of lib/git/async/pool.py: TaskNode, RPoolChannel and ThreadPool.  *)
(*                                                                         *)
(* The tasks form a chain 1 -> 2 -> ... : task 1 reads an external,        *)
(* pre-filled channel, task t > 1 reads the RPoolChannel of task t-1.      *)
(* The variable pool is the ThreadPool under test together with its tasks, *)
(* channels and handles; ser is a second ThreadPool that always has zero   *)
(* workers and receives the same calls of the consumer.                    *)
(***************************************************************************)
EXTENDS Integers, Sequences, FiniteSets, TLC

VARIABLES pool, ser, nReads, lastRead

vars == <<pool, ser, nReads, lastRead>>

\* ---------------------------------------------------------------- bounds
MaxItems == 2
MaxReads == 2
MaxCount == 2

Tasks == {1, 2}
Counts == 0..MaxCount
PoolSizes == 0..2
NoCount == -1
NoItems == <<-1>>

\* ---------------------------------------------------------------- helpers
SeqOfLen(n) == [i \in 1..n |-> i]

IsPrefix(s, t) == Len(s) <= Len(t) /\ SubSeq(t, 1, Len(s)) = s

RECURSIVE SumSeq(_)
SumSeq(s) == IF s = <<>> THEN 0 ELSE Head(s) + SumSeq(Tail(s))

\* ---------------------------------------------------------------- channel
\* RChannel.read(count), non-blocking: up to count items, all when count < 1
ChanRead(buf, count) ==
    IF count < 1 \/ count >= Len(buf) THEN buf ELSE SubSeq(buf, 1, count)

ChanRest(buf, count) ==
    IF count < 1 \/ count >= Len(buf) THEN <<>> ELSE SubSeq(buf, count + 1, Len(buf))

\* ---------------------------------------------------------------- tasks
\* the user functions: fun of task t adds 10 * t to an item (or to the sum
\* of a batch); it raises on the item (or batch) whose last digit is cfg.bad
Fun(t, x) == x + 10 * t

FunBatch(t, items) == SumSeq(items) + 10 * t

Raises(p, t, x) == p.cfg[t].bad # 0 /\ x % 10 = p.cfg[t].bad

DefaultCfg == [min_count |-> NoCount, max_chunksize |-> 0, apply_single |-> TRUE, bad |-> 0]

\* the task configurations explored: the default one, and one per knob
Cfgs ==
    { DefaultCfg,
      [DefaultCfg EXCEPT !.min_count = 1],
      [DefaultCfg EXCEPT !.min_count = 2],
      [DefaultCfg EXCEPT !.max_chunksize = 1],
      [DefaultCfg EXCEPT !.max_chunksize = 2],
      [DefaultCfg EXCEPT !.min_count = 2, !.max_chunksize = 2],
      [DefaultCfg EXCEPT !.apply_single = FALSE],
      [DefaultCfg EXCEPT !.bad = 2] }

\* the input channel of task t: the external channel or the output of t-1
InputOf(p, t) == IF t = 1 THEN p.input ELSE p.out[t - 1]

SetInput(p, t, buf) ==
    IF t = 1 THEN [p EXCEPT !.input = buf] ELSE [p EXCEPT !.out[t - 1] = buf]

\* TaskNode.set_done: closes the output write channel
SetDone(p, t) == [p EXCEPT !.closed[t] = TRUE]

\* the except clause of TaskNode.process
Caught(p, t, e) ==
    SetDone([p EXCEPT !.exc[t] = e, !.funRaised[t] = @ \/ e = "fun"], t)

\* WChannel.write: fails on a closed channel
WriteFails(p, t) == p.closed[t]

Write(p, t, v) ==
    [p EXCEPT !.out[t] = Append(@, v), !.written[t] = Append(@, v)]

\* items = read(count)
TakeItems(p, t, count) ==
    LET buf == InputOf(p, t)
        items == ChanRead(buf, count)
        p1 == SetInput(p, t, ChanRest(buf, count))
    IN [p1 EXCEPT !.taken[t] = @ \o items, !.everProcessed = TRUE]

\* one pass of the body of the try block for one item (apply_single) or for
\* the whole batch: [p |-> state after, stop |-> an exception was caught]
ApplyOne(p, t, x) ==
    IF Raises(p, t, x) THEN [p |-> Caught(p, t, "fun"), stop |-> TRUE]
    ELSE IF WriteFails(p, t) THEN [p |-> Caught(p, t, "io"), stop |-> TRUE]
    ELSE [p |-> Write(p, t, Fun(t, x)), stop |-> FALSE]

ApplyBatch(p, t, items) ==
    IF Raises(p, t, SumSeq(items)) THEN Caught(p, t, "fun")
    ELSE IF WriteFails(p, t) THEN Caught(p, t, "io")
    ELSE Write(p, t, FunBatch(t, items))

RECURSIVE ApplyLoop(_, _, _)
ApplyLoop(p, t, items) ==
    IF items = <<>> THEN p
    ELSE LET r == ApplyOne(p, t, Head(items))
         IN IF r.stop THEN r.p ELSE ApplyLoop(r.p, t, Tail(items))

\* done as soon as no more than count items were read
DepletedEager(n, count) == n <= count

\* if len(items) != count: self.set_done()
Depleted(n, count) == n # count

\* no call of process has returned yet
NoProc == [seen |-> FALSE, count |-> 0, n |-> 0, done |-> FALSE]

\* the end of process(count) after n items were read; proc keeps, per task,
\* the count, the number of items read and the done flag of the call that
\* returned last since the last scheduling pass began
FinishProcess(p, t, n, count) ==
    LET p1 == IF Depleted(n, count) THEN SetDone(p, t) ELSE p
    IN [p1 EXCEPT !.proc[t] = [seen |-> TRUE, count |-> count, n |-> n,
                               done |-> p1.closed[t]]]

\* TaskNode.process(count), run to completion by one thread
Process(p, t, count) ==
    LET items == ChanRead(InputOf(p, t), count)
        p1 == TakeItems(p, t, count)
        p2 == IF p.cfg[t].apply_single THEN ApplyLoop(p1, t, items)
              ELSE ApplyBatch(p1, t, items)
    IN FinishProcess(p2, t, Len(items), count)

\* ---------------------------------------------------------------- graph
\* Graph.visit_input_inclusive_depth_first: the inputs first, then the node
InNodes(p, t) == {a \in Tasks : <<a, t>> \in p.edges}

RECURSIVE VisitOrder(_, _)
VisitOrder(p, t) ==
    LET ins == InNodes(p, t)
    IN IF ins = {} THEN <<t>>
       ELSE VisitOrder(p, CHOOSE a \in ins : TRUE) \o <<t>>

\* Graph.del_node: the node goes, and its edges with it
DelNode(p, t) ==
    [p EXCEPT !.nodes = @ \ {t},
              !.edges = {e \in @ : e[1] # t /\ e[2] # t},
              !.delMissing = @ \/ t \notin p.nodes]

\* ---------------------------------------------------------------- references
\* a job (task.process, n) on the queue or in a worker's hands refers to the task
HasJob(p, t) ==
    \/ \E i \in 1..Len(p.queue) : p.queue[i].task = t
    \/ \E i \in 1..Len(p.workers) : p.workers[i].st # "idle" /\ p.workers[i].task = t

\* the task object lives while somebody refers to it: the user, the graph,
\* a job, or its RPoolChannel (_task)
TaskAlive(p, t) ==
    /\ t \in p.created
    /\ p.taskHeld[t] \/ t \in p.nodes \/ p.rcAlive[t] \/ HasJob(p, t)

\* the RPoolChannel of t lives while the consumer holds it or a living task
\* has it as in_rc
RcReferenced(p, t) ==
    \/ p.rcHeld[t]
    \/ (t + 1) \in Tasks /\ TaskAlive(p, t + 1)

\* sys.getrefcount(task._out_wc): the task's slot, the argument of the call,
\* and the _wc slot of the RPoolChannel while that still has it
RefCount(p, t) == 2 + (IF p.rcAlive[t] THEN 1 ELSE 0)

RECURSIVE DelTask(_, _), OrphanLoop(_, _)
\* ThreadPool._del_task_if_orphaned
DelTaskIfOrphaned(p, t) == IF RefCount(p, t) < 3 THEN DelTask(p, t) ELSE p

OrphanLoop(p, ts) ==
    IF ts = {} THEN p
    ELSE LET t == CHOOSE x \in ts : TRUE
         IN OrphanLoop(DelTaskIfOrphaned(p, t), ts \ {t})

\* ThreadPool.del_task
DelTask(p, t) ==
    LET in_tasks == InNodes(p, t)
    IN OrphanLoop(DelNode(SetDone(p, t), t), in_tasks)

\* RPoolChannel.__del__: del(self._wc), then the orphan check of its task
RcDel(p, t) == DelTaskIfOrphaned([p EXCEPT !.rcAlive[t] = FALSE], t)

\* reference counting: every RPoolChannel nobody refers to any more is
\* finalised, which may free further tasks and channels
RECURSIVE Collect(_)
Collect(p) ==
    LET dead == {t \in Tasks : p.rcAlive[t] /\ ~RcReferenced(p, t)}
    IN IF dead = {} THEN p
       ELSE Collect(RcDel(p, CHOOSE t \in dead : \A u \in dead : u <= t))

\* ---------------------------------------------------------------- scheduler
Job(t, n) == [task |-> t, count |-> n]

Idle == [st |-> "idle", task |-> 0, count |-> 0, items |-> <<>>, n |-> 0]

NoVisit == [seen |-> FALSE, req |-> 0, eff |-> 0, par |-> FALSE,
            wasDone |-> FALSE, buffered |-> 0, jobs |-> <<>>,
            processed |-> FALSE]

\* the count after the min_count override
EffCount(p, t, count) ==
    IF p.cfg[t].min_count # NoCount THEN p.cfg[t].min_count ELSE count

\* the sizes of the jobs queued for count items and max_chunksize k > 0
ChunkJobs(count, k) ==
    LET chunksize == count \div k
        remainder == count - (chunksize * k)
    IN [i \in 1..chunksize |-> chunksize]
       \o (IF remainder # 0 THEN <<remainder>> ELSE <<>>)

\* the sizes of the jobs the visitor queues for task t
JobSizes(p, t, count) ==
    IF count < 1 \/ Len(p.out[t]) < count
    THEN IF p.cfg[t].max_chunksize # 0
         THEN ChunkJobs(count, p.cfg[t].max_chunksize)
         ELSE <<count>>
    ELSE <<>>

Enqueue(p, t, sizes) ==
    [p EXCEPT !.queue = @ \o [i \in 1..Len(sizes) |-> Job(t, sizes[i])]]

\* ThreadPool._queue_feeder_visitor
Visitor(p, t, count) ==
    LET wasDone == p.exc[t] # "none" \/ p.closed[t]
        p1 == IF wasDone THEN [p EXCEPT !.consumed = Append(@, t)] ELSE p
        eff == EffCount(p, t, count)
        par == Len(p.workers) > 0
        sizes == IF par THEN JobSizes(p1, t, eff) ELSE <<>>
        p2 == [p1 EXCEPT !.visit[t] =
                  [seen |-> TRUE, req |-> count, eff |-> eff, par |-> par,
                   wasDone |-> wasDone, buffered |-> Len(p.out[t]),
                   jobs |-> sizes, processed |-> ~par]]
    IN IF par THEN Enqueue(p2, t, sizes) ELSE Process(p2, t, eff)

RECURSIVE VisitAll(_, _, _)
VisitAll(p, order, count) ==
    IF order = <<>> THEN p
    ELSE VisitAll(Visitor(p, Head(order), count), Tail(order), count)

\* for task in self._consumed_tasks: self.del_task(task); then clear the list
RECURSIVE Sweep(_, _)
Sweep(p, list) ==
    IF list = <<>> THEN [p EXCEPT !.consumed = <<>>]
    ELSE Sweep(DelTask(p, Head(list)), Tail(list))

\* ThreadPool._prepare_processing
PrepareProcessing(p, t, count) ==
    LET p0 == [p EXCEPT !.visit = [u \in Tasks |-> NoVisit],
                        !.proc = [u \in Tasks |-> NoProc]]
        p1 == VisitAll(p0, VisitOrder(p0, t), count)
    IN Sweep(p1, p1.consumed)

\* ---------------------------------------------------------------- read handle

RECURSIVE Reverse(_)
Reverse(s) == IF s = <<>> THEN <<>> ELSE Append(Reverse(Tail(s)), Head(s))

\* the user's post_cb: it returns the items in reverse order
PostCb(cb, items) == IF cb = "rev" THEN Reverse(items) ELSE items

\* the handle of task 1 has a post_cb installed, that of the others has none
PostOf(t) == IF t = 1 THEN "rev" ELSE "none"

\* RPoolChannel.read has no return statement: the caller gets None
ReadReturn(items) == NoItems

\* RPoolChannel.read: the state after, the items read from the channel and
\* what the caller gets
ReadOp(p, t, count) ==
    LET p1 == PrepareProcessing(p, t, count)
        items == ChanRead(p1.out[t], count)
        p2 == [p1 EXCEPT !.out[t] = ChanRest(p1.out[t], count)]
    IN [p |-> p2, items |-> items, ret |-> ReadReturn(PostCb(PostOf(t), items))]

\* add_task that also queues a first job for the new task
AddTaskOpEager(p, t, cfg) ==
    [p EXCEPT !.created = @ \cup {t},
              !.cfg[t] = cfg,
              !.nodes = @ \cup {t},
              !.edges = IF t > 1 THEN @ \cup {<<t - 1, t>>} ELSE @,
              !.rcAlive[t] = TRUE,
              !.rcHeld[t] = TRUE,
              !.taskHeld[t] = TRUE,
              !.queue = Append(@, Job(t, 1))]

\* ThreadPool.add_task
AddTaskOp(p, t, cfg) ==
    [p EXCEPT !.created = @ \cup {t},
              !.cfg[t] = cfg,
              !.nodes = @ \cup {t},
              !.edges = IF t > 1 THEN @ \cup {<<t - 1, t>>} ELSE @,
              !.rcAlive[t] = TRUE,
              !.rcHeld[t] = TRUE,
              !.taskHeld[t] = TRUE]

\* ---------------------------------------------------------------- pool size
\* a loop that empties the queue without invoking the jobs
DrainDrop(p) == [p EXCEPT !.queue = <<>>]

\* the loop of set_pool_size(0): the caller runs the queued jobs itself;
\* invoked lists the jobs in the order of their invocation
RECURSIVE Drain(_)
Drain(p) ==
    IF p.queue = <<>> THEN p
    ELSE LET j == Head(p.queue)
             p1 == [p EXCEPT !.queue = Tail(@), !.invoked = Append(@, j)]
         IN Drain(Collect(Process(p1, j.task, j.count)))

\* ThreadPool.set_pool_size, when the workers to stop have been joined
SetPoolSizeOp(p, size) ==
    LET cur_count == Len(p.workers)
        p0 == [p EXCEPT !.invoked = <<>>]
        p1 == IF cur_count < size
              THEN [p0 EXCEPT !.workers = @ \o [i \in 1..(size - cur_count) |-> Idle]]
              ELSE IF cur_count > size
              THEN [p0 EXCEPT !.workers = SubSeq(@, cur_count - size + 1, cur_count)]
              ELSE p0
    IN IF size = 0 THEN Drain(p1) ELSE p1

\* a stop that does not wait for the worker
CanJoinAny(p, size) == TRUE

\* stop_and_join returns once the worker has finished its current job
CanJoin(p, size) ==
    \A i \in 1..Len(p.workers) : i <= Len(p.workers) - size => p.workers[i].st = "idle"

\* ---------------------------------------------------------------- workers
SetWorker(p, i, w) == [p EXCEPT !.workers[i] = w]

\* the worker pops a job and enters process: items = read(count)
WorkerTakeOp(p, i) ==
    LET j == Head(p.queue)
        items == ChanRead(InputOf(p, j.task), j.count)
        p1 == TakeItems([p EXCEPT !.queue = Tail(@)], j.task, j.count)
        next == IF p.cfg[j.task].apply_single /\ items = <<>> THEN "finish" ELSE "apply"
    IN SetWorker(p1, i, [st |-> next, task |-> j.task, count |-> j.count,
                         items |-> items, n |-> Len(items)])

\* one turn of the loop over the items, or the single call on the batch
WorkerApplyOp(p, i) ==
    LET w == p.workers[i]
    IN IF p.cfg[w.task].apply_single
       THEN LET r == ApplyOne(p, w.task, Head(w.items))
                rest == IF r.stop THEN <<>> ELSE Tail(w.items)
            IN SetWorker(r.p, i, [w EXCEPT !.items = rest,
                                           !.st = IF rest = <<>> THEN "finish" ELSE "apply"])
       ELSE SetWorker(ApplyBatch(p, w.task, w.items), i,
                      [w EXCEPT !.items = <<>>, !.st = "finish"])

\* the depletion check at the end of process; the job is released
WorkerFinishOp(p, i) ==
    LET w == p.workers[i]
    IN Collect(SetWorker(FinishProcess(p, w.task, w.n, w.count), i, Idle))

\* ---------------------------------------------------------------- state
NewPool(n) ==
    [created |-> {}, nodes |-> {}, edges |-> {},
     cfg |-> [t \in Tasks |-> DefaultCfg],
     closed |-> [t \in Tasks |-> FALSE],
     exc |-> [t \in Tasks |-> "none"],
     funRaised |-> [t \in Tasks |-> FALSE],
     out |-> [t \in Tasks |-> <<>>],
     input |-> SeqOfLen(n),
     queue |-> <<>>, workers |-> <<>>, consumed |-> <<>>, invoked |-> <<>>,
     rcAlive |-> [t \in Tasks |-> FALSE],
     rcHeld |-> [t \in Tasks |-> FALSE],
     taskHeld |-> [t \in Tasks |-> FALSE],
     taken |-> [t \in Tasks |-> <<>>],
     written |-> [t \in Tasks |-> <<>>],
     visit |-> [t \in Tasks |-> NoVisit],
     proc |-> [t \in Tasks |-> NoProc],
     everProcessed |-> FALSE, delMissing |-> FALSE,
     parReads |-> FALSE, serReads |-> FALSE]

NoRead == [task |-> 0, count |-> 0,
           items |-> <<>>, ret |-> <<>>, exact |-> FALSE, afterExact |-> FALSE]

\* a pool without workers whose chain up to t is registered and not done
StillPending(p, t) ==
    /\ Len(p.workers) = 0
    /\ \A u \in 1..t : u \in p.nodes /\ ~p.closed[u] /\ p.exc[u] = "none"

\* the tasks a read on the handle of t visits
Chain(t) == 1..t

\* a pool without workers is asked, on the handle of t, for exactly as many
\* items as the source input holds, and no task of the chain has finished
\* or buffered anything yet
ExactDemand(p, t, count) ==
    /\ Len(p.workers) = 0
    /\ count = Len(p.input)
    /\ \A u \in Chain(t) :
           u \in p.nodes /\ ~p.closed[u] /\ p.exc[u] = "none" /\ p.out[u] = <<>>

Init ==
    /\ \E n \in 0..MaxItems : pool = NewPool(n) /\ ser = NewPool(n)
    /\ nReads = 0
    /\ lastRead = NoRead

\* ---------------------------------------------------------------- actions
AddTask(t, cfg) ==
    /\ t \notin pool.created
    /\ t = 1 \/ ((t - 1) \in pool.created /\ pool.rcHeld[t - 1])
    /\ cfg = DefaultCfg \/ \A u \in pool.created : pool.cfg[u] = DefaultCfg
    /\ pool' = AddTaskOp(pool, t, cfg)
    /\ ser' = AddTaskOp(ser, t, cfg)
    /\ UNCHANGED <<nReads, lastRead>>

MarkRead(p) ==
    IF Len(p.workers) > 0 THEN [p EXCEPT !.parReads = TRUE]
    ELSE [p EXCEPT !.serReads = TRUE]

\* the consumer calls read(count) on the handle of t (no pre_cb installed)
Read(t, count) ==
    /\ pool.rcHeld[t]
    /\ nReads < MaxReads
    /\ nReads' = nReads + 1
    /\ LET r == ReadOp(MarkRead(pool), t, count)
           s == ReadOp(MarkRead(ser), t, count)
       IN /\ pool' = r.p
          /\ ser' = s.p
          /\ lastRead' = [task |-> t, count |-> count,
                          items |-> r.items, ret |-> r.ret,
                          exact |-> ExactDemand(pool, t, count),
                          afterExact |-> /\ lastRead.exact
                                         /\ lastRead.task = t
                                         /\ StillPending(pool, t)]

\* the consumer forgets its RPoolChannel
DropHandle(t) ==
    /\ pool.rcHeld[t]
    /\ pool' = Collect([pool EXCEPT !.rcHeld[t] = FALSE])
    /\ ser' = Collect([ser EXCEPT !.rcHeld[t] = FALSE])
    /\ UNCHANGED <<nReads, lastRead>>

\* the user forgets the task object
DropTask(t) ==
    /\ pool.taskHeld[t]
    /\ pool' = Collect([pool EXCEPT !.taskHeld[t] = FALSE])
    /\ ser' = Collect([ser EXCEPT !.taskHeld[t] = FALSE])
    /\ UNCHANGED <<nReads, lastRead>>

\* the user calls pool.del_task(task)
DelTaskCall(t) ==
    /\ pool.taskHeld[t]
    /\ t \in pool.nodes
    /\ pool' = DelTask(pool, t)
    /\ ser' = DelTask(ser, t)
    /\ UNCHANGED <<nReads, lastRead>>

SetPoolSize(size) ==
    /\ size # Len(pool.workers)
    /\ CanJoin(pool, size)
    /\ pool' = SetPoolSizeOp(pool, size)
    /\ UNCHANGED <<ser, nReads, lastRead>>

WorkerTake(i) ==
    /\ i <= Len(pool.workers)
    /\ pool.workers[i].st = "idle"
    /\ pool.queue # <<>>
    /\ pool' = WorkerTakeOp(pool, i)
    /\ UNCHANGED <<ser, nReads, lastRead>>

WorkerApply(i) ==
    /\ i <= Len(pool.workers)
    /\ pool.workers[i].st = "apply"
    /\ pool' = WorkerApplyOp(pool, i)
    /\ UNCHANGED <<ser, nReads, lastRead>>

WorkerFinish(i) ==
    /\ i <= Len(pool.workers)
    /\ pool.workers[i].st = "finish"
    /\ pool' = WorkerFinishOp(pool, i)
    /\ UNCHANGED <<ser, nReads, lastRead>>

\* scheduling: tasks, reads, the pool size and the workers
Next ==
    \/ \E t \in Tasks, cfg \in Cfgs : AddTask(t, cfg)
    \/ \E t \in Tasks, c \in Counts : Read(t, c)
    \/ \E size \in PoolSizes : SetPoolSize(size)
    \/ \E i \in 1..2 : WorkerTake(i)
    \/ \E i \in 1..2 : WorkerApply(i)
    \/ \E i \in 1..2 : WorkerFinish(i)

Spec == Init /\ [][Next]_vars

\* the workers are scheduled fairly: a worker that can pop a job, or go on
\* with the one it has, does so
Fairness ==
    \A i \in 1..2 :
        /\ WF_vars(WorkerTake(i))
        /\ WF_vars(WorkerApply(i))
        /\ WF_vars(WorkerFinish(i))

SpecFair == Spec /\ Fairness

\* life cycle: tasks, reads and the handles and objects the user lets go of
NextLife ==
    \/ \E t \in Tasks, cfg \in Cfgs : AddTask(t, cfg)
    \/ \E t \in Tasks, c \in Counts : Read(t, c)
    \/ \E t \in Tasks : DropHandle(t)
    \/ \E t \in Tasks : DropTask(t)
    \/ \E t \in Tasks : DelTaskCall(t)

SpecLife == Init /\ [][NextLife]_vars


\* ---------------------------------------------------------------- properties
MapFun(t, s) == [i \in 1..Len(s) |-> Fun(t, s[i])]

WorkersIdle(p) == \A i \in 1..Len(p.workers) : p.workers[i].st = "idle"

Quiescent(p) == p.queue = <<>> /\ WorkersIdle(p)

Busy(p, t) == \E i \in 1..Len(p.workers) : p.workers[i].st # "idle" /\ p.workers[i].task = t

\* C1 (laziness): as long as no consumer has called read on a handle, no
\* process call has started, in a worker or in the caller, no job is on the
\* work queue, and no task has taken or written an item, whatever add_task
\* and set_pool_size did.
C1_Laziness ==
    nReads = 0 =>
        /\ ~pool.everProcessed
        /\ pool.queue = <<>>
        /\ WorkersIdle(pool)
        /\ \A t \in Tasks : pool.taken[t] = <<>> /\ pool.written[t] = <<>>

\* tasks were added and the pool was given workers, and nobody has read yet
C1_Witness ==
    nReads = 0 /\ pool.created = Tasks /\ Len(pool.workers) = 2

\* C2 (order within task): what an apply_single task has written is fun
\* applied, in order, to what it has taken from its input: a prefix of it at
\* any time, and all of it once no process call of the task is running and
\* no exception was caught.
C2_OrderWithinTask ==
    \A t \in pool.created :
        pool.cfg[t].apply_single =>
            /\ IsPrefix(pool.written[t], MapFun(t, pool.taken[t]))
            /\ (pool.exc[t] = "none" /\ ~Busy(pool, t))
                   => pool.written[t] = MapFun(t, pool.taken[t])

\* C3 (serial equals parallel): when every read was served with workers and
\* the workers have run all the jobs, each task has written the same items in
\* the same order, and is done or not, as in the pool without workers that
\* served the same reads.
C3_SerialEqualsParallel ==
    (pool.parReads /\ ~pool.serReads /\ Len(pool.workers) >= 1 /\ Quiescent(pool)) =>
        \A t \in Tasks :
            /\ pool.written[t] = ser.written[t]
            /\ pool.closed[t] = ser.closed[t]

\* the jobs the chunking rule asks for: floor(count/k) jobs of size k, then
\* one of size count mod k if that is not 0
ChunksWanted(count, k) ==
    [i \in 1..(count \div k) |-> k]
    \o (IF count % k # 0 THEN <<count % k>> ELSE <<>>)

\* the visitor decided to schedule production for t in its last pass
Scheduled(v) == v.seen /\ v.par /\ (v.eff < 1 \/ v.buffered < v.eff)

\* C4 (chunking identity): when the scheduler, with workers, schedules
\* production of count items for a task with max_chunksize k > 0, the jobs
\* it queues are floor(count/k) of size k and then one of size count mod k
\* if that is not 0, and their sizes sum to count.
C4_ChunkingIdentity ==
    \A t \in pool.created :
        LET v == pool.visit[t]
            k == pool.cfg[t].max_chunksize
        IN (Scheduled(v) /\ k > 0) =>
               /\ v.jobs = ChunksWanted(v.eff, k)
               /\ SumSeq(v.jobs) = v.eff

\* the step in which the RPoolChannel of t is finalised
Finalised(t) == pool.rcAlive[t] /\ ~pool'.rcAlive[t]

\* C5 (orphan cascade): when the last reference to the RPoolChannel of T
\* goes, T is deleted from the graph and done, and so is the upstream task
\* whose handle the consumer no longer holds (T was its only consumer); an
\* upstream task whose handle the consumer still holds stays in the graph.
C5_OrphanCascade ==
    [][\A t \in Tasks :
          Finalised(t) =>
              /\ t \notin pool'.nodes
              /\ pool'.closed[t]
              /\ \A u \in pool.created :
                     u < t =>
                         IF pool.rcHeld[u]
                         THEN u \in pool.nodes => u \in pool'.nodes
                         ELSE u \notin pool'.nodes /\ pool'.closed[u]]_vars

\* C6 (done is final): a task that is done stays done, and no step takes a
\* further item from its input or writes a further item to its output.
C6_DoneIsFinal ==
    [][\A t \in Tasks :
          pool.closed[t] =>
              /\ pool'.closed[t]
              /\ pool'.taken[t] = pool.taken[t]
              /\ pool'.written[t] = pool.written[t]]_vars

\* the items of s before the first one on which fun of t raises
RECURSIVE BeforeBad(_, _, _)
BeforeBad(p, t, s) ==
    IF s = <<>> \/ Raises(p, t, Head(s)) THEN <<>>
    ELSE <<Head(s)>> \o BeforeBad(p, t, Tail(s))

\* C7 (user-function error capture): a task whose fun raised has an error
\* and is done, and, without workers, an apply_single task has written
\* exactly the results of the items before the failing one; a task whose fun
\* never raised has no error.
C7_ErrorCapture ==
    \A t \in pool.created :
        /\ pool.funRaised[t] => pool.exc[t] # "none" /\ pool.closed[t]
        /\ (pool.funRaised[t] /\ pool.cfg[t].apply_single /\ ~pool.parReads)
               => pool.written[t] = MapFun(t, BeforeBad(pool, t, pool.taken[t]))
        /\ ~pool.funRaised[t] => pool.exc[t] = "none"

\* the tasks of the chain have the default settings and a fun that never raises
PlainChain(p, t) ==
    \A u \in Chain(t) :
        p.cfg[u].apply_single /\ p.cfg[u].min_count = NoCount /\ p.cfg[u].bad = 0

ReadStep == nReads' = nReads + 1

C9_ReadResult ==
    nReads > 0 =>
        lastRead.ret = PostCb(PostOf(lastRead.task), lastRead.items)

\* C10 (min_count override): when the consumer asked for fewer than the
\* min_count m of a visited task, the count used for that task is at least m:
\* the argument of process without workers, the total of the jobs queued for
\* it with workers (when production is scheduled at all).
C10_MinCountOverride ==
    \A t \in pool.created :
        LET v == pool.visit[t]
            m == pool.cfg[t].min_count
        IN (v.seen /\ m # NoCount /\ v.req < m) =>
               /\ v.eff >= m
               /\ Scheduled(v) => SumSeq(v.jobs) >= m

\* the step in which set_pool_size(0) runs in a pool that has workers
ResizeToZero == Len(pool.workers) > 0 /\ Len(pool'.workers) = 0

\* C11 (inline drain): when set_pool_size(0) returns, the pool has no
\* workers, the work queue is empty, and the calling thread has invoked the
\* jobs that were on the queue, each once and in the order of the queue; a
\* pool without workers never has a job on its queue.
C11_InlineDrain ==
    [][/\ ResizeToZero => pool'.queue = <<>> /\ pool'.invoked = pool.queue
       /\ Len(pool'.workers) = 0 => pool'.queue = <<>>]_vars

\* set_pool_size(0) has run two queued jobs on the calling thread
C11_Witness ==
    Len(pool.workers) = 0 /\ pool.queue = <<>> /\ Len(pool.invoked) >= 2

\* C12 (at most one concurrent process per task): in a pool with two or
\* more workers no two workers are inside process of the same task at the
\* same time.
C12_OneProcessPerTask ==
    \A i, j \in 1..Len(pool.workers) :
        (i # j /\ pool.workers[i].st # "idle" /\ pool.workers[j].st # "idle")
            => pool.workers[i].task # pool.workers[j].task

\* C13 (consumed tasks are swept, not rescheduled): a task that was done or
\* had an error when prepare_processing visited it got no job and no call of
\* process in that pass and is no longer a node of the graph, and the
\* consumed list is empty once prepare_processing has returned.
C13_ConsumedSwept ==
    /\ pool.consumed = <<>>
    /\ \A t \in pool.created :
           LET v == pool.visit[t]
           IN (v.seen /\ v.wasDone) =>
                  /\ v.jobs = <<>>
                  /\ ~v.processed
                  /\ t \notin pool.nodes

\* C14 (min_count is only a floor): when the consumer asks for c items and
\* a visited task has min_count m <= c, the count the scheduler uses for
\* that task is c; a visited task without min_count gets the count of the
\* consumer, whatever the min_count of the other tasks of the traversal.
C14_MinCountFloor ==
    \A t \in pool.created :
        LET v == pool.visit[t]
            m == pool.cfg[t].min_count
        IN v.seen =>
               /\ (m # NoCount /\ v.req >= m) => v.eff = v.req
               /\ m = NoCount => v.eff = v.req

\* C15 (depletion rule of process): after process(count) has returned, the
\* task is done whenever fewer than count items were read from its input,
\* and whenever count was 0, whatever the input held.
C15_DepletionRule ==
    \A t \in pool.created :
        LET c == pool.proc[t]
        IN c.seen => ((c.n < c.count \/ c.count = 0) => c.done)

\* the jobs there can be
AllJobs == [task : Tasks, count : Counts]

\* how often job j is on the queue or in the hands of a worker
OnQueue(p, j) == Cardinality({i \in 1..Len(p.queue) : p.queue[i] = j})

InHand(p, j) ==
    Cardinality({i \in 1..Len(p.workers) :
                    p.workers[i].st # "idle" /\ Job(p.workers[i].task, p.workers[i].count) = j})

Held(p, j) == OnQueue(p, j) + InHand(p, j)

\* a worker returns from the job j it was running
Returns(j) ==
    /\ Len(pool'.workers) = Len(pool.workers)
    /\ \E i \in 1..Len(pool.workers) :
           /\ pool.workers[i].st = "finish"
           /\ Job(pool.workers[i].task, pool.workers[i].count) = j
           /\ pool'.workers[i].st = "idle"

\* what a step may do to the jobs: a read puts jobs at the end of the queue;
\* set_pool_size(0) finds the workers idle and runs the queue itself; any
\* other step leaves the queue alone or pops its head, and a job leaves the
\* queue and the workers only when a worker returns from it
NoLostStep ==
    IF ReadStep
    THEN /\ IsPrefix(pool.queue, pool'.queue)
         /\ pool'.workers = pool.workers
    ELSE IF ResizeToZero
    THEN /\ WorkersIdle(pool)
         /\ pool'.invoked = pool.queue
         /\ pool'.queue = <<>>
    ELSE /\ pool'.queue = pool.queue
            \/ (pool.queue # <<>> /\ pool'.queue = Tail(pool.queue))
         /\ \A j \in AllJobs :
                \/ Held(pool', j) = Held(pool, j)
                \/ Held(pool', j) = Held(pool, j) - 1 /\ Returns(j)

\* C16 (no lost work): no step discards or duplicates a job, whether it
\* resizes the pool or not: a job leaves the queue for one worker, or for
\* the calling thread in set_pool_size(0), and leaves the worker when process
\* has returned; and with workers that are scheduled fairly, a pool with a
\* job queued or running gets to the point where every job has been run.
C16_NoLostWork ==
    /\ [][NoLostStep]_vars
    /\ ~Quiescent(pool) ~> Quiescent(pool)

\* two reads were served with workers, the pool was left with one worker,
\* and every job of the two tasks has been run
C16_Witness ==
    /\ nReads = MaxReads /\ pool.parReads /\ ~pool.serReads
    /\ Len(pool.workers) = 1 /\ Quiescent(pool)
    /\ pool.proc[1].seen /\ pool.proc[2].seen

\* C17 (buffered already): when the scheduler, with workers, visits a task
\* that is not done with effective count e: if e >= 1 and the output of the
\* task already buffers e items or more, the visit queues no job; if e < 1
\* or fewer than e items are buffered, the visit queues one job or more.
C17_BufferedAlready ==
    \A t \in pool.created :
        LET v == pool.visit[t]
        IN (v.seen /\ v.par /\ ~v.wasDone) =>
               /\ (v.eff >= 1 /\ v.buffered >= v.eff) => v.jobs = <<>>
               /\ (v.eff < 1 \/ v.buffered < v.eff) => v.jobs # <<>>

\* the input of task b is the RPoolChannel of task a
ReadsFrom(p, a, b) == b \in p.created /\ b = a + 1

\* C18 (edge invariant): the graph has an edge a -> b exactly when a and b
\* are nodes of the graph and the input of b is the RPoolChannel of a; so
\* the task that reads the external channel has no input edge and no edge
\* refers to a task that was removed from the graph.
C18_EdgeInvariant ==
    pool.edges = {e \in Tasks \X Tasks :
                     /\ e[1] \in pool.nodes
                     /\ e[2] \in pool.nodes
                     /\ ReadsFrom(pool, e[1], e[2])}

\* C19 (single deletion): del_task is only applied to a task that is a node
\* of the graph at that time, whether it is called by the sweep of the
\* consumed list, by the orphan check of a former input task, or by the
\* orphan check of a handle that is dropped: no task is removed twice.
C19_SingleDeletion == ~pool.delMissing

\* worker i returns from a job of task t in which it read fewer items than
\* demanded, and the task becomes done
DepletesNow(i, t) ==
    /\ i <= Len(pool.workers)
    /\ pool.workers[i].st = "finish"
    /\ pool.workers[i].task = t
    /\ pool.workers[i].n < pool.workers[i].count
    /\ Len(pool'.workers) = Len(pool.workers)
    /\ pool'.workers[i].st = "idle"
    /\ ~pool.closed[t] /\ pool'.closed[t]

\* task t is not done and a job of it is still queued or running
StillProducing(p, t) == ~p.closed[t] /\ p.exc[t] = "none" /\ HasJob(p, t)

\* C20 (no premature depletion): with workers and task 1 feeding task 2,
\* a job of task 2 does not mark task 2 done for having read fewer items
\* than demanded while task 1 is not done and a job of task 1 of the same
\* scheduling pass is still queued or running (stated for the jobs of the
\* first read, which all belong to one pass).
C20_NoPrematureDepletion ==
    [][\A i \in 1..2 :
          (nReads = 1 /\ DepletesNow(i, 2)) => ~StillProducing(pool, 1)]_vars

====
